---- MODULE Spec2Model ----
(* env_doctor.py: the probes of the developer environment, the list of
   CheckResult that main builds from them, and the report and exit code
   that print_results reduces the list to. *)
EXTENDS Integers, Sequences, FiniteSets, TLC

(* String constants, as sequences of characters *)
str_empty == <<>>

str_dot == <<".">>

str_dotdot == <<".", ".">>

str_slash == <<"/">>

str_mnt_prefix == <<"/", "m", "n", "t", "/">>

str_clean == <<"c", "l", "e", "a", "n">>

str_matches == <<"m", "a", "t", "c", "h", "e", "s", ":", " ">>

str_not_found == <<"n", "o", "t", " ", "f", "o", "u", "n", "d">>

str_node_not_found == <<"n", "o", "d", "e", " ", "n", "o", "t", " ", "f", "o", "u", "n", "d">>

str_detected == <<"D", "e", "t", "e", "c", "t", "e", "d", ":", " ">>

str_WSL == <<"W", "S", "L">>

str_macOS == <<"m", "a", "c", "O", "S">>

str_Linux == <<"L", "i", "n", "u", "x">>

str_dot_nvm == <<".", "n", "v", "m">>

str_microsoft == <<"m", "i", "c", "r", "o", "s", "o", "f", "t">>

str_windows == <<"w", "i", "n", "d", "o", "w", "s">>

str_darwin == <<"d", "a", "r", "w", "i", "n">>

str_linux == <<"l", "i", "n", "u", "x">>

str_node == <<"n", "o", "d", "e">>

str_uv == <<"u", "v">>

str_gh == <<"g", "h">>

str_claude == <<"c", "l", "a", "u", "d", "e">>

str_codex == <<"c", "o", "d", "e", "x">>

str_gemini == <<"g", "e", "m", "i", "n", "i">>

str_defpath == <<"/", "b", "i", "n", ":", "/", "u", "s", "r", "/", "b", "i", "n">>

str_class_plus == <<"[", "^", "/", "]", "+">>

pat_pf_nodejs == <<"/", "m", "n", "t", "/", "c", "/", "P", "r", "o", "g", "r", "a", "m", " ", "F", "i", "l", "e", "s", "/", "n", "o", "d", "e", "j", "s">>

pat_pf86_nodejs == <<"/", "m", "n", "t", "/", "c", "/", "P", "r", "o", "g", "r", "a", "m", " ", "F", "i", "l", "e", "s", " ", "\\", "(", "x", "8", "6", "\\", ")", "/", "n", "o", "d", "e", "j", "s">>

pat_roaming_npm == <<"/", "m", "n", "t", "/", "c", "/", "U", "s", "e", "r", "s", "/", "[", "^", "/", "]", "+", "/", "A", "p", "p", "D", "a", "t", "a", "/", "R", "o", "a", "m", "i", "n", "g", "/", "n", "p", "m">>

pat_windowsapps == <<"/", "m", "n", "t", "/", "c", "/", "U", "s", "e", "r", "s", "/", "[", "^", "/", "]", "+", "/", "A", "p", "p", "D", "a", "t", "a", "/", "L", "o", "c", "a", "l", "/", "M", "i", "c", "r", "o", "s", "o", "f", "t", "/", "W", "i", "n", "d", "o", "w", "s", "A", "p", "p", "s">>

pat_programs_python == <<"/", "m", "n", "t", "/", "c", "/", "U", "s", "e", "r", "s", "/", "[", "^", "/", "]", "+", "/", "A", "p", "p", "D", "a", "t", "a", "/", "L", "o", "c", "a", "l", "/", "P", "r", "o", "g", "r", "a", "m", "s", "/", "P", "y", "t", "h", "o", "n">>

sys_Windows == <<"W", "i", "n", "d", "o", "w", "s">>

sys_Linux == <<"L", "i", "n", "u", "x">>

sys_Darwin == <<"D", "a", "r", "w", "i", "n">>

sys_Java == <<"J", "a", "v", "a">>

dir_usr_bin == <<"/", "u", "s", "r", "/", "b", "i", "n">>

dir_nvm_bin == <<"/", "h", "o", "m", "e", "/", "d", "e", "v", "/", ".", "n", "v", "m", "/", "b", "i", "n">>

dir_win_nodejs == <<"/", "m", "n", "t", "/", "c", "/", "P", "r", "o", "g", "r", "a", "m", " ", "F", "i", "l", "e", "s", "/", "n", "o", "d", "e", "j", "s">>

dir_home_dev == <<"/", "h", "o", "m", "e", "/", "d", "e", "v">>

dir_win_work == <<"/", "m", "n", "t", "/", "c", "/", "w">>

exe_python == <<"/", "u", "s", "r", "/", "b", "i", "n", "/", "p", "y", "t", "h", "o", "n", "3">>

path_scenario_project == <<"/", "m", "n", "t", "/", "c", "/", "U", "s", "e", "r", "s", "/", "d", "e", "v", "/", "p", "r", "o", "j">>

path_scenario_PATH == <<"/", "m", "n", "t", "/", "c", "/", "P", "r", "o", "g", "r", "a", "m", " ", "F", "i", "l", "e", "s", "/", "n", "o", "d", "e", "j", "s", ":", "/", "u", "s", "r", "/", "b", "i", "n">>

path_plain_PATH == <<"/", "h", "o", "m", "e", "/", "d", "e", "v", "/", ".", "n", "v", "m", "/", "b", "i", "n", ":", "/", "u", "s", "r", "/", "b", "i", "n">>

path_sys_first_PATH == <<"/", "u", "s", "r", "/", "b", "i", "n", ":", "/", "h", "o", "m", "e", "/", "d", "e", "v", "/", ".", "n", "v", "m", "/", "b", "i", "n">>

distro_Ubuntu == <<"U", "b", "u", "n", "t", "u">>

k_Linux == <<"L", "i", "n", "u", "x", " ">>

k_micro == <<"m", "i", "c", "r", "o">>

k_soft == <<"s", "o", "f", "t">>

k_Micro == <<"M", "i", "c", "r", "o">>

k_SOFT == <<"S", "O", "F", "T">>

k_wsl2 == <<"-", "W", "S", "L", "2">>

c_slash == <<"/">>

c_mnt == <<"/", "m", "n", "t">>

c_c == <<"/", "c">>

c_D == <<"/", "D">>

c_cd == <<"/", "c", "d">>

c_up == <<"/", ".", ".">>

c_here == <<"/", ".">>

c_x == <<"x">>

h_colon == <<":">>

h_usr_bin == <<"/", "u", "s", "r", "/", "b", "i", "n">>

h_pf_nodejs == <<"/", "m", "n", "t", "/", "c", "/", "P", "r", "o", "g", "r", "a", "m", " ", "F", "i", "l", "e", "s", "/", "n", "o", "d", "e", "j", "s">>

h_pf86_nodejs_upper == <<"/", "M", "N", "T", "/", "C", "/", "P", "R", "O", "G", "R", "A", "M", " ", "F", "I", "L", "E", "S", " ", "(", "X", "8", "6", ")", "/", "N", "O", "D", "E", "J", "S">>

h_users == <<"/", "m", "n", "t", "/", "c", "/", "U", "s", "e", "r", "s", "/">>

h_users_dev == <<"/", "m", "n", "t", "/", "c", "/", "U", "s", "e", "r", "s", "/", "d", "e", "v">>

h_roaming_npm == <<"/", "A", "p", "p", "D", "a", "t", "a", "/", "R", "o", "a", "m", "i", "n", "g", "/", "n", "p", "m">>

h_windowsapps_lower == <<"/", "a", "p", "p", "d", "a", "t", "a", "/", "l", "o", "c", "a", "l", "/", "m", "i", "c", "r", "o", "s", "o", "f", "t", "/", "w", "i", "n", "d", "o", "w", "s", "a", "p", "p", "s">>

h_programs_python == <<"/", "A", "p", "p", "D", "a", "t", "a", "/", "L", "o", "c", "a", "l", "/", "P", "r", "o", "g", "r", "a", "m", "s", "/", "P", "y", "t", "h", "o", "n">>

str_timeout == <<"t", "i", "m", "e", "o", "u", "t">>

str_not_found_colon == <<"n", "o", "t", " ", "f", "o", "u", "n", "d", ":", " ">>

cmd_git == <<"g", "i", "t">>

cmd_script == <<".", "/", "s", "e", "t", "u", "p", ".", "s", "h">>

arg_version == <<"-", "-", "v", "e", "r", "s", "i", "o", "n">>

io_empty == <<>>

io_line == <<"o", "k", "\n">>

io_padded == <<" ", " ", "v", "1", " ", "2", "\t", "\n">>

io_blank == <<" ", "\n">>

loc_pf_nodejs == <<"/", "m", "n", "t", "/", "c", "/", "p", "r", "o", "g", "r", "a", "m", " ", "f", "i", "l", "e", "s", "/", "n", "o", "d", "e", "j", "s">>

loc_pf86_nodejs == <<"/", "m", "n", "t", "/", "c", "/", "p", "r", "o", "g", "r", "a", "m", " ", "f", "i", "l", "e", "s", " ", "(", "x", "8", "6", ")", "/", "n", "o", "d", "e", "j", "s">>

loc_users == <<"/", "m", "n", "t", "/", "c", "/", "u", "s", "e", "r", "s", "/">>

loc_roaming_npm == <<"/", "a", "p", "p", "d", "a", "t", "a", "/", "r", "o", "a", "m", "i", "n", "g", "/", "n", "p", "m">>

loc_windowsapps == <<"/", "a", "p", "p", "d", "a", "t", "a", "/", "l", "o", "c", "a", "l", "/", "m", "i", "c", "r", "o", "s", "o", "f", "t", "/", "w", "i", "n", "d", "o", "w", "s", "a", "p", "p", "s">>

loc_programs_python == <<"/", "a", "p", "p", "d", "a", "t", "a", "/", "l", "o", "c", "a", "l", "/", "p", "r", "o", "g", "r", "a", "m", "s", "/", "p", "y", "t", "h", "o", "n">>

shown_pf86_nodejs == <<"/", "m", "n", "t", "/", "c", "/", "P", "r", "o", "g", "r", "a", "m", " ", "F", "i", "l", "e", "s", " ", "\\", "\\", "(", "x", "8", "6", "\\", "\\", ")", "/", "n", "o", "d", "e", "j", "s">>


(***************************************************************************)
(* Python values                                                           *)
(*                                                                         *)
(* A str is a sequence of one-character strings, so that lower(), "in",    *)
(* split() and the regular expressions are computed character by           *)
(* character.  An Optional[str] is <<>> (None) or <<s>>.                   *)
(***************************************************************************)
None == <<>>

Some(s) == <<s>>

UpperCase == <<"A","B","C","D","E","F","G","H","I","J","K","L","M","N","O","P","Q","R","S","T","U","V","W","X","Y","Z">>

LowerCase == <<"a","b","c","d","e","f","g","h","i","j","k","l","m","n","o","p","q","r","s","t","u","v","w","x","y","z">>

\* the ASCII letters, the class [a-zA-Z]
Letters == {UpperCase[i] : i \in 1..26} \cup {LowerCase[i] : i \in 1..26}

\* str.lower() on one character
LowerChar(c) ==
  IF \E i \in 1..26 : UpperCase[i] = c
  THEN LowerCase[CHOOSE i \in 1..26 : UpperCase[i] = c]
  ELSE c

\* str.lower()
lower(s) == [i \in 1..Len(s) |-> LowerChar(s[i])]

\* s.startswith(prefix) at offset i (1-based)
HasAt(s, i, sub) ==
  /\ i + Len(sub) - 1 <= Len(s)
  /\ SubSeq(s, i, i + Len(sub) - 1) = sub

\* the Python operator "sub in s"
Contains(s, sub) == \E i \in 1..(Len(s) + 1) : HasAt(s, i, sub)

\* the components of s from position start on, scanning from position i
RECURSIVE split_from(_, _, _, _)
split_from(s, sep, start, i) ==
  IF i > Len(s) THEN <<SubSeq(s, start, Len(s))>>
  ELSE IF s[i] = sep THEN <<SubSeq(s, start, i - 1)>> \o split_from(s, sep, i + 1, i + 1)
  ELSE split_from(s, sep, start, i + 1)

\* str.split(sep) for a one-character separator: at least one component
split(s, sep) == split_from(s, sep, 1, 1)

\* sep.join(parts)
RECURSIVE join(_, _)
join(sep, parts) ==
  IF parts = <<>> THEN <<>>
  ELSE IF Len(parts) = 1 THEN parts[1]
  ELSE parts[1] \o sep \o join(sep, Tail(parts))

\* os.path.join(a, b) for two components (posixpath)
path_join(a, b) ==
  IF HasAt(b, 1, str_slash) THEN b
  ELSE IF a = <<>> \/ a[Len(a)] = "/" THEN a \o b
  ELSE a \o str_slash \o b

\* the component loop of posixpath.normpath
RECURSIVE norm_comps(_, _, _)
norm_comps(comps, new_comps, initial_slashes) ==
  IF comps = <<>> THEN new_comps
  ELSE LET comp == Head(comps)
           n    == Len(new_comps)
       IN  IF comp = str_empty \/ comp = str_dot
           THEN norm_comps(Tail(comps), new_comps, initial_slashes)
           ELSE IF \/ comp # str_dotdot
                   \/ (initial_slashes = 0 /\ n = 0)
                   \/ (n > 0 /\ new_comps[n] = str_dotdot)
           THEN norm_comps(Tail(comps), Append(new_comps, comp), initial_slashes)
           ELSE IF n > 0
           THEN norm_comps(Tail(comps), SubSeq(new_comps, 1, n - 1), initial_slashes)
           ELSE norm_comps(Tail(comps), new_comps, initial_slashes)

\* posixpath.normpath: drops empty and "." components, applies "..",
\* keeps exactly two leading slashes and reduces three or more to one
normpath(path) ==
  IF path = <<>> THEN str_dot
  ELSE LET initial_slashes ==
             IF ~HasAt(path, 1, str_slash) THEN 0
             ELSE IF HasAt(path, 1, <<"/", "/">>) /\ ~HasAt(path, 1, <<"/", "/", "/">>) THEN 2
             ELSE 1
           comps  == norm_comps(split(path, "/"), <<>>, initial_slashes)
           joined == join(str_slash, comps)
           res    == [i \in 1..initial_slashes |-> "/"] \o joined
       IN  IF res = <<>> THEN str_dot ELSE res

\* os.path.abspath(path) with the process's working directory cwd
abspath(cwd, path) ==
  IF HasAt(path, 1, str_slash) THEN normpath(path)
  ELSE normpath(path_join(cwd, path))

\* variant: the pattern has to match the whole path (re.fullmatch)
match_mnt_drive_full(p) ==
  /\ Len(p) = 7
  /\ SubSeq(p, 1, 5) = str_mnt_prefix
  /\ p[6] \in Letters
  /\ p[7] = "/"

\* re.match(r"^/mnt/[a-zA-Z]/", p)
match_mnt_drive(p) ==
  /\ Len(p) >= 7
  /\ SubSeq(p, 1, 5) = str_mnt_prefix
  /\ p[6] \in Letters
  /\ p[7] = "/"

(***************************************************************************)
(* State                                                                   *)
(***************************************************************************)
VARIABLES
  env,      \* what the probes read: OS name, environment variables, files
  args,     \* the parsed command line: project, strict
  pc,       \* the statement of main (or the function called) that runs next
  checks,   \* the list of CheckResult built so far
  out,      \* the lines printed to standard output
  ret,      \* the value returned by the call that finished
  proc      \* the subprocess call of run(): cmd, timeout and what it does

vars == <<env, args, pc, checks, out, ret, proc>>

CheckResult(name, ok, details, fix, required) ==
  [name |-> name, ok |-> ok, details |-> details, fix |-> fix, required |-> required]

\* variant: the pattern is tested on the argument, not on its abspath
project_is_on_linux_fs_raw(e, project_path) == ~match_mnt_drive(project_path)

project_is_on_linux_fs(e, project_path) ==
  LET p == abspath(e.cwd, project_path)
  IN  ~match_mnt_drive(p)

check_project_path(e, project_path) ==
  LET ok == project_is_on_linux_fs(e, project_path)
      p  == abspath(e.cwd, project_path)
  IN  CheckResult("Project directory is on Linux filesystem (not /mnt/c)",
                  ok, p, "Move project into Linux FS (e.g. /home/<user>/project).", TRUE)

\* the truth value of an Optional[str]: None and "" are false
truthy(opt) == opt # None /\ opt[1] # str_empty

\* the os.access(name, X_OK) test of shutil.which; a relative name is
\* looked up from the working directory
is_executable(e, name) ==
  IF HasAt(name, 1, str_slash) THEN name \in e.files
  ELSE path_join(e.cwd, name) \in e.files

\* the directory loop of shutil.which: the first directory that holds name
RECURSIVE which_in(_, _, _)
which_in(e, dirs, bin_name) ==
  IF dirs = <<>> THEN None
  ELSE LET name == path_join(Head(dirs), bin_name)
       IN  IF is_executable(e, name) THEN Some(name)
           ELSE which_in(e, Tail(dirs), bin_name)

\* shutil.which(bin_name): PATH unset falls back to os.defpath, an empty
\* PATH finds nothing
which(e, bin_name) ==
  LET path == IF e.PATH = None THEN str_defpath ELSE e.PATH[1]
  IN  IF path = str_empty THEN None
      ELSE which_in(e, split(path, ":"), bin_name)

\* variant: the kernel text is searched without lower()
is_wsl_case_sensitive(e) ==
  IF truthy(e.WSL_DISTRO_NAME) THEN TRUE
  ELSE IF e.proc_version = None THEN FALSE
  ELSE Contains(e.proc_version[1], str_microsoft)

is_wsl(e) ==
  IF truthy(e.WSL_DISTRO_NAME) THEN TRUE
  ELSE IF e.proc_version = None THEN FALSE    \* open() or read() raised
  ELSE Contains(lower(e.proc_version[1]), str_microsoft)

is_windows_native(e) == lower(e.system) = str_windows

is_macos(e) == lower(e.system) = str_darwin

is_linux(e) == lower(e.system) = str_linux

\* re.compile for the constructs the patterns use: a literal character,
\* a backslash-escaped character, and the class repetition [^/]+
RECURSIVE re_compile(_)
re_compile(src) ==
  IF src = <<>> THEN <<>>
  ELSE IF src[1] = "\\" /\ Len(src) >= 2
  THEN <<[kind |-> "lit", ch |-> src[2]]>> \o re_compile(SubSeq(src, 3, Len(src)))
  ELSE IF HasAt(src, 1, str_class_plus)
  THEN <<[kind |-> "not_plus", ch |-> "/"]>> \o re_compile(SubSeq(src, 6, Len(src)))
  ELSE <<[kind |-> "lit", ch |-> src[1]]>> \o re_compile(Tail(src))

\* the compiled pattern matches s from position i on (re.IGNORECASE)
RECURSIVE re_match_at(_, _, _)
re_match_at(prog, s, i) ==
  IF prog = <<>> THEN TRUE
  ELSE LET el == Head(prog)
       IN  IF el.kind = "lit"
           THEN /\ i <= Len(s)
                /\ LowerChar(s[i]) = LowerChar(el.ch)
                /\ re_match_at(Tail(prog), s, i + 1)
           ELSE \E k \in 1..(Len(s) - i + 1) :
                  /\ \A j \in i..(i + k - 1) : s[j] # el.ch
                  /\ re_match_at(Tail(prog), s, i + k)

\* re.search(pattern, s, re.IGNORECASE) is not None
re_search(pattern, s) ==
  LET prog == re_compile(pattern)
  IN  \E i \in 1..(Len(s) + 1) : re_match_at(prog, s, i)

patterns == <<pat_pf_nodejs, pat_pf86_nodejs, pat_roaming_npm, pat_windowsapps, pat_programs_python>>

\* variant: re.match in place of re.search, a hit only at the start of PATH
path_contains_windows_bins_at_start(e) ==
  LET path == IF e.PATH = None THEN str_empty ELSE e.PATH[1]
  IN  SelectSeq(patterns, LAMBDA p : re_match_at(re_compile(p), path, 1))

path_contains_windows_bins(e) ==
  LET path == IF e.PATH = None THEN str_empty ELSE e.PATH[1]
  IN  SelectSeq(patterns, LAMBDA p : re_search(p, path))

\* repr() of a str without quotes or control characters: single quotes
\* around it, every backslash doubled
RECURSIVE repr_chars(_)
repr_chars(s) ==
  IF s = <<>> THEN <<>>
  ELSE (IF s[1] = "\\" THEN <<"\\", "\\">> ELSE <<s[1]>>) \o repr_chars(Tail(s))

repr_str(s) == <<"'">> \o repr_chars(s) \o <<"'">>

\* str() of a list of str, as an f-string formats it
repr_list(l) ==
  <<"[">> \o join(<<",", " ">>, [i \in 1..Len(l) |-> repr_str(l[i])]) \o <<"]">>

Digits == <<"0", "1", "2", "3", "4", "5", "6", "7", "8", "9">>

\* str(n) of a natural number
RECURSIVE str_int(_)
str_int(n) ==
  IF n < 10 THEN <<Digits[n + 1]>>
  ELSE str_int(n \div 10) \o <<Digits[(n % 10) + 1]>>

check_os(e) ==
  IF is_windows_native(e)
  THEN CheckResult("OS is Linux / WSL / macOS (not Windows-native)", FALSE,
                   str_detected \o e.system,
                   "Run this script inside WSL/Linux/macOS terminal.", TRUE)
  ELSE LET kind == IF is_wsl(e) THEN str_WSL
                   ELSE IF is_macos(e) THEN str_macOS ELSE str_Linux
       IN  CheckResult("OS is Linux / WSL / macOS (not Windows-native)", TRUE,
                       str_detected \o kind, "", TRUE)

\* variant: major and minor compared one by one, not as a pair
check_python_version_componentwise(e) ==
  LET major == e.version_info[1]
      minor == e.version_info[2]
      ok    == major >= 3 /\ minor >= 10
      details == str_int(major) \o str_dot \o str_int(minor) \o str_dot \o str_int(e.version_info[3])
                   \o <<" ", "(">> \o e.executable \o <<")">>
  IN  CheckResult("Python version >= 3.10", ok, details,
                  "Install Python 3.10+ and activate the correct uv venv.", TRUE)

check_python_version(e) ==
  LET major == e.version_info[1]
      minor == e.version_info[2]
      ok    == major > 3 \/ (major = 3 /\ minor >= 10)   \* (major, minor) >= (3, 10)
      details == str_int(major) \o str_dot \o str_int(minor) \o str_dot \o str_int(e.version_info[3])
                   \o <<" ", "(">> \o e.executable \o <<")">>
  IN  CheckResult("Python version >= 3.10", ok, details,
                  "Install Python 3.10+ and activate the correct uv venv.", TRUE)

\* (the backquotes in the fix texts of check_bin and check_node_nvm are
\* left out of the strings)
check_bin(e, name, required, label) ==
  LET p  == which(e, name)
      ok == p # None
  IN  CheckResult(label \o " is installed", ok,
                  IF truthy(p) THEN p[1] ELSE str_not_found,
                  "Install " \o label \o " in WSL/Linux/macOS and ensure it is on PATH.",
                  required)

\* variant: the result is always required
check_node_nvm_required(e, strict) ==
  LET node == which(e, str_node)
      ok   == truthy(node) /\ Contains(node[1], str_dot_nvm)
  IN  CheckResult("Node.js is installed via nvm", ok,
                  IF truthy(node) THEN node[1] ELSE str_node_not_found,
                  "Install Node.js via nvm and run nvm use.", TRUE)

\* variant: ".nvm" is looked for in PATH, not in the resolved path of node
check_node_nvm_on_path(e, strict) ==
  LET node == which(e, str_node)
      ok   == e.PATH # None /\ Contains(e.PATH[1], str_dot_nvm)
  IN  CheckResult("Node.js is installed via nvm", ok,
                  IF truthy(node) THEN node[1] ELSE str_node_not_found,
                  "Install Node.js via nvm and run nvm use.", strict)

check_node_nvm(e, strict) ==
  LET node == which(e, str_node)
      ok   == truthy(node) /\ Contains(node[1], str_dot_nvm)
  IN  CheckResult("Node.js is installed via nvm", ok,
                  IF truthy(node) THEN node[1] ELSE str_node_not_found,
                  "Install Node.js via nvm and run nvm use.", strict)

check_windows_path_hygiene(e, strict) ==
  LET hits == path_contains_windows_bins(e)
      ok   == Len(hits) = 0
  IN  CheckResult("WSL PATH does not include Windows Node/Python locations", ok,
                  IF ok THEN str_clean ELSE str_matches \o repr_list(hits),
                  "Remove Windows runtime paths from WSL PATH (~/.bashrc, ~/.zshrc).",
                  strict)

\* the lines print_results prints for one result
result_lines(r) ==
  <<[line |-> "result", status |-> IF r.ok THEN "pass" ELSE "fail",
     req |-> IF r.required THEN "REQUIRED" ELSE "OPTIONAL", text |-> r.name]>>
  \o (IF r.details # str_empty THEN <<[line |-> "details", text |-> r.details]>> ELSE <<>>)
  \o (IF ~r.ok THEN <<[line |-> "fix", text |-> r.fix]>> ELSE <<>>)
  \o <<[line |-> "blank"]>>

RECURSIVE report_lines(_)
report_lines(results) ==
  IF results = <<>> THEN <<>>
  ELSE result_lines(Head(results)) \o report_lines(Tail(results))

\* variant: every failure counts, required or not
print_results_any_failure(results) ==
  LET failed == SelectSeq(results, LAMBDA r : ~r.ok)
  IN  IF failed # <<>>
      THEN [lines |-> report_lines(results)
                        \o <<[line |-> "summary", text |-> "FAILED", count |-> Len(failed)]>>,
            code |-> 1]
      ELSE [lines |-> report_lines(results)
                        \o <<[line |-> "summary", text |-> "PASSED"]>>,
            code |-> 0]

\* print_results: the printed lines and the returned exit code
print_results(results) ==
  LET failed_required == SelectSeq(results, LAMBDA r : r.required /\ ~r.ok)
      failed_optional == SelectSeq(results, LAMBDA r : ~r.required /\ ~r.ok)
  IN  IF failed_required # <<>>
      THEN [lines |-> report_lines(results)
                        \o <<[line |-> "summary", text |-> "FAILED", count |-> Len(failed_required)]>>,
            code |-> 1]
      ELSE IF failed_optional # <<>>
      THEN [lines |-> report_lines(results)
                        \o <<[line |-> "summary", text |-> "PASSED with warnings", count |-> Len(failed_optional)]>>,
            code |-> 0]
      ELSE [lines |-> report_lines(results)
                        \o <<[line |-> "summary", text |-> "PASSED"]>>,
            code |-> 0]

\* variant: the gh check is listed before the uv check
main_check_gh_first(i, e, a) ==
  CASE i = 1  -> check_os(e)
    [] i = 2  -> check_project_path(e, a.project)
    [] i = 3  -> check_python_version(e)
    [] i = 4  -> check_bin(e, str_node, TRUE, "Node.js")
    [] i = 5  -> check_bin(e, str_gh, TRUE, "GitHub CLI (gh)")
    [] i = 6  -> check_bin(e, str_uv, TRUE, "uv")
    [] i = 7  -> check_bin(e, str_claude, FALSE, "Claude Code (claude)")
    [] i = 8  -> check_bin(e, str_codex, FALSE, "OpenAI Codex (codex)")
    [] i = 9  -> check_bin(e, str_gemini, FALSE, "Gemini CLI (gemini)")
    [] i = 10 -> check_node_nvm(e, a.strict)
    [] i = 11 -> check_windows_path_hygiene(e, a.strict)

\* the i-th element of the list main builds, in the order of evaluation
main_check(i, e, a) ==
  CASE i = 1  -> check_os(e)
    [] i = 2  -> check_project_path(e, a.project)
    [] i = 3  -> check_python_version(e)
    [] i = 4  -> check_bin(e, str_node, TRUE, "Node.js")
    [] i = 5  -> check_bin(e, str_uv, TRUE, "uv")
    [] i = 6  -> check_bin(e, str_gh, TRUE, "GitHub CLI (gh)")
    [] i = 7  -> check_bin(e, str_claude, FALSE, "Claude Code (claude)")
    [] i = 8  -> check_bin(e, str_codex, FALSE, "OpenAI Codex (codex)")
    [] i = 9  -> check_bin(e, str_gemini, FALSE, "Gemini CLI (gemini)")
    [] i = 10 -> check_node_nvm(e, a.strict)
    [] i = 11 -> check_windows_path_hygiene(e, a.strict)

NumChecks == 11

\* the first n elements of the list
main_checks_upto(n, e, a) == [i \in 1..n |-> main_check(i, e, a)]

\* the list main passes to print_results
main_checks(e, a) == main_checks_upto(NumChecks, e, a)

(***************************************************************************)
(* Bounds and the inputs drawn from them                                   *)
(***************************************************************************)
MaxPathChunks == 4

MaxKernelChunks == 3

MaxHygieneChunks == 3

MaxResults == 3

MaxMinor == 13

MaxMicro == 2

MaxDuration == 6

\* the default of run's timeout parameter
DefaultTimeout == 5

\* all concatenations of at most n chunks
RECURSIVE Concats(_, _)
Concats(chunks, n) ==
  IF n = 0 THEN {<<>>}
  ELSE LET shorter == Concats(chunks, n - 1)
       IN  shorter \cup {s \o c : s \in shorter, c \in chunks}

PathChunks == {c_slash, c_mnt, c_c, c_D, c_cd, c_up, c_here, c_x}

PathInputs == Concats(PathChunks, MaxPathChunks)

KernelChunks == {k_Linux, k_micro, k_soft, k_Micro, k_SOFT, k_wsl2}

KernelTexts == Concats(KernelChunks, MaxKernelChunks)

HygieneChunks == {h_colon, h_usr_bin, h_pf_nodejs, h_pf86_nodejs_upper, h_users, h_users_dev,
                  h_roaming_npm, h_windowsapps_lower, h_programs_python}

HygienePaths == Concats(HygieneChunks, MaxHygieneChunks)

Tools == {str_uv, str_gh, str_claude, str_codex, str_gemini}

NodeDirs == {dir_usr_bin, dir_nvm_bin, dir_win_nodejs}

RequiredTools == {str_uv, str_gh}

\* the agent CLIs: none, one, two or all three of them installed
AgentToolSets == {{}, {str_claude}, {str_codex, str_gemini}, {str_claude, str_codex, str_gemini}}

\* the executable files of a machine: node in some of its three usual
\* places, and some of the other tools in /usr/bin
FileSets ==
  { {path_join(d, str_node) : d \in nd} \cup {path_join(dir_usr_bin, t) : t \in rt \cup ag} :
      nd \in SUBSET NodeDirs, rt \in SUBSET RequiredTools, ag \in AgentToolSets }

DefaultEnv ==
  [system |-> sys_Linux, WSL_DISTRO_NAME |-> None, proc_version |-> Some(k_Linux),
   PATH |-> Some(path_plain_PATH), cwd |-> dir_home_dev,
   files |-> {path_join(dir_nvm_bin, str_node)} \cup {path_join(dir_usr_bin, t) : t \in Tools},
   version_info |-> <<3, 11, 0>>, executable |-> exe_python]

DefaultArgs == [project |-> dir_home_dev, strict |-> FALSE]

Running == [kind |-> "running"]

Returned(v) == [kind |-> "return", value |-> v]

Raised(exc) == [kind |-> "raise", exc |-> exc]

NoProc == [kind |-> "none"]

MainEnvs ==
  { [DefaultEnv EXCEPT !.system = s, !.proc_version = k, !.PATH = p,
                       !.files = f, !.version_info = v] :
      s \in {sys_Linux, sys_Windows},
      k \in {None, Some(k_Linux)},
      p \in {Some(path_scenario_PATH), Some(path_plain_PATH), Some(path_sys_first_PATH)},
      f \in FileSets,
      v \in {<<3, 9, 7>>, <<3, 10, 0>>} }

MainArgs ==
  [project : {path_scenario_project, c_x}, strict : BOOLEAN]

(***************************************************************************)
(* main: one action per element of the checks list, then print_results     *)
(***************************************************************************)
Init ==
  /\ env \in MainEnvs
  /\ args \in MainArgs
  /\ pc = "check_os"
  /\ checks = <<>>
  /\ out = <<>>
  /\ ret = Running
  /\ proc = NoProc

\* main evaluates the i-th element of the list
Step(i, from, to) ==
  /\ pc = from
  /\ checks' = Append(checks, main_check(i, env, args))
  /\ pc' = to
  /\ UNCHANGED <<env, args, out, ret, proc>>

CheckOs == Step(1, "check_os", "check_project_path")

CheckProjectPath == Step(2, "check_project_path", "check_python_version")

CheckPythonVersion == Step(3, "check_python_version", "check_bin_node")

CheckBinNode == Step(4, "check_bin_node", "check_bin_uv")

CheckBinUv == Step(5, "check_bin_uv", "check_bin_gh")

CheckBinGh == Step(6, "check_bin_gh", "check_bin_claude")

CheckBinClaude == Step(7, "check_bin_claude", "check_bin_codex")

CheckBinCodex == Step(8, "check_bin_codex", "check_bin_gemini")

CheckBinGemini == Step(9, "check_bin_gemini", "check_node_nvm")

CheckNodeNvm == Step(10, "check_node_nvm", "check_windows_path_hygiene")

CheckWindowsPathHygiene == Step(11, "check_windows_path_hygiene", "print_results")

\* print_results(checks), whose value main returns and SystemExit raises
PrintResults ==
  /\ pc = "print_results"
  /\ LET r == print_results(checks)
     IN  /\ out' = out \o r.lines
         /\ ret' = Returned(r.code)
  /\ pc' = "done"
  /\ UNCHANGED <<env, args, checks, proc>>

Next ==
  \/ CheckOs
  \/ CheckProjectPath
  \/ CheckPythonVersion
  \/ CheckBinNode
  \/ CheckBinUv
  \/ CheckBinGh
  \/ CheckBinClaude
  \/ CheckBinCodex
  \/ CheckBinGemini
  \/ CheckNodeNvm
  \/ CheckWindowsPathHygiene
  \/ PrintResults


Spec == Init /\ [][Next]_vars

(***************************************************************************)
(* check_os over the OS names, the values of WSL_DISTRO_NAME and the       *)
(* contents of /proc/version                                               *)
(***************************************************************************)
OsEnvs ==
  { [DefaultEnv EXCEPT !.system = s, !.WSL_DISTRO_NAME = w, !.proc_version = k] :
      s \in {sys_Linux, sys_Windows, sys_Darwin, sys_Java, str_empty},
      w \in {None, Some(str_empty), Some(distro_Ubuntu)},
      k \in {None} \cup {Some(t) : t \in KernelTexts} }

InitOs ==
  /\ env \in OsEnvs
  /\ args = DefaultArgs
  /\ pc = "check_os"
  /\ checks = <<>>
  /\ out = <<>>
  /\ ret = Running
  /\ proc = NoProc

SpecOs == InitOs /\ [][CheckOs]_vars

(***************************************************************************)
(* check_project_path over the values of --project, at the point of main   *)
(* where it is called                                                      *)
(***************************************************************************)
InitPath ==
  /\ env \in {[DefaultEnv EXCEPT !.cwd = d] : d \in {dir_home_dev, dir_win_work}}
  /\ args \in {[DefaultArgs EXCEPT !.project = p] : p \in PathInputs}
  /\ pc = "check_project_path"
  /\ checks = main_checks_upto(1, env, args)
  /\ out = <<>>
  /\ ret = Running
  /\ proc = NoProc

SpecPath == InitPath /\ [][CheckProjectPath]_vars

(***************************************************************************)
(* check_python_version over the versions of the interpreter               *)
(***************************************************************************)
InitPy ==
  /\ env \in {[DefaultEnv EXCEPT !.version_info = <<major, minor, micro>>] :
                 major \in 2..4, minor \in 0..MaxMinor, micro \in 0..MaxMicro}
  /\ args = DefaultArgs
  /\ pc = "check_python_version"
  /\ checks = main_checks_upto(2, env, args)
  /\ out = <<>>
  /\ ret = Running
  /\ proc = NoProc

SpecPy == InitPy /\ [][CheckPythonVersion]_vars

(***************************************************************************)
(* check_windows_path_hygiene over the values of PATH and --strict         *)
(***************************************************************************)
InitHyg ==
  /\ env \in {[DefaultEnv EXCEPT !.PATH = p] : p \in {None} \cup {Some(t) : t \in HygienePaths}}
  /\ args \in {[DefaultArgs EXCEPT !.strict = b] : b \in BOOLEAN}
  /\ pc = "check_windows_path_hygiene"
  /\ checks = main_checks_upto(10, env, args)
  /\ out = <<>>
  /\ ret = Running
  /\ proc = NoProc

SpecHyg == InitHyg /\ [][CheckWindowsPathHygiene]_vars

(***************************************************************************)
(* print_results called with any list of results                           *)
(***************************************************************************)
SomeResults ==
  { CheckResult("check", ok, details, "fix", required) :
      ok \in BOOLEAN, required \in BOOLEAN, details \in {str_empty, str_clean} }

RECURSIVE ListsOf(_, _)
ListsOf(S, n) ==
  IF n = 0 THEN {<<>>}
  ELSE LET shorter == ListsOf(S, n - 1)
       IN  shorter \cup {Append(l, x) : l \in shorter, x \in S}

InitAgg ==
  /\ env = DefaultEnv
  /\ args = DefaultArgs
  /\ pc = "print_results"
  /\ checks \in ListsOf(SomeResults, MaxResults)
  /\ out = <<>>
  /\ ret = Running
  /\ proc = NoProc

SpecAgg == InitAgg /\ [][PrintResults]_vars

(***************************************************************************)
(* run(cmd, timeout): subprocess.run inside try/except                     *)
(***************************************************************************)
Whitespace == {" ", "\t", "\n", "\r"}

\* str.strip()
RECURSIVE strip(_)
strip(s) ==
  IF s = <<>> THEN s
  ELSE IF s[1] \in Whitespace THEN strip(Tail(s))
  ELSE IF s[Len(s)] \in Whitespace THEN strip(SubSeq(s, 1, Len(s) - 1))
  ELSE s

\* what subprocess.run does with the command: the executable is missing
\* (FileNotFoundError), it cannot be executed (PermissionError), or the
\* child runs for some time and exits
Behaviours ==
  {[kind |-> "missing"], [kind |-> "not_executable"]}
  \cup [kind : {"exits"}, duration : 0..MaxDuration, returncode : {0, 1, 2},
        stdout : {io_empty, io_line, io_padded}, stderr : {io_empty, io_blank}]

Procs ==
  [kind : {"call"}, cmd : {<<cmd_git, arg_version>>, <<cmd_script>>},
   timeout : {None, Some(1), Some(3)}, does : Behaviours]

InitRun ==
  /\ env = DefaultEnv
  /\ args = DefaultArgs
  /\ pc = "run"
  /\ checks = <<>>
  /\ out = <<>>
  /\ ret = Running
  /\ proc \in Procs

\* the body of run: the try block and its two except clauses; any other
\* exception leaves the function
run(p) ==
  LET timeout == IF p.timeout = None THEN DefaultTimeout ELSE p.timeout[1]
  IN  IF p.does.kind = "missing"
      THEN Returned(<<127, str_empty, str_not_found_colon \o p.cmd[1]>>)
      ELSE IF p.does.kind = "not_executable"
      THEN Raised("PermissionError")
      ELSE IF p.does.duration > timeout
      THEN Returned(<<124, str_empty, str_timeout>>)
      ELSE Returned(<<p.does.returncode, strip(p.does.stdout), strip(p.does.stderr)>>)

Run ==
  /\ pc = "run"
  /\ ret' = run(proc)
  /\ pc' = "run_done"
  /\ UNCHANGED <<env, args, checks, out, proc>>

SpecRun == InitRun /\ [][Run]_vars

(***************************************************************************)
(* Properties                                                              *)
(***************************************************************************)
FailedRequired == {i \in 1..Len(checks) : checks[i].required /\ ~checks[i].ok}

FailedOptional == {i \in 1..Len(checks) : ~checks[i].required /\ ~checks[i].ok}

Summaries == SelectSeq(out, LAMBDA l : l.line = "summary")

\* C1: print_results returns 1 and prints the FAILED summary with the number
\* of required failures when some required result failed, whatever the other
\* results are; it returns 0 and prints "PASSED with warnings" with the
\* number of optional failures when only optional results failed; it returns
\* 0 and prints the plain "PASSED" when nothing failed.  Exactly one summary
\* is printed.
C1_ExitCodeAndSummary ==
  (pc = "done") =>
    /\ Len(Summaries) = 1
    /\ out[Len(out)] = Summaries[1]
    /\ (FailedRequired # {}) =>
         /\ ret = Returned(1)
         /\ Summaries[1] = [line |-> "summary", text |-> "FAILED",
                            count |-> Cardinality(FailedRequired)]
    /\ (FailedRequired = {} /\ FailedOptional # {}) =>
         /\ ret = Returned(0)
         /\ Summaries[1] = [line |-> "summary", text |-> "PASSED with warnings",
                            count |-> Cardinality(FailedOptional)]
    /\ (FailedRequired = {} /\ FailedOptional = {}) =>
         /\ ret = Returned(0)
         /\ Summaries[1] = [line |-> "summary", text |-> "PASSED"]

\* a list with a required failure next to an optional failure and a pass
C1_Witness ==
  /\ pc = "done"
  /\ Cardinality(FailedRequired) = 1
  /\ Cardinality(FailedOptional) = 1
  /\ Len(checks) = 3
  /\ ret = Returned(1)

\* C2: the run with the other value of --strict gives the same name, ok,
\* details and fix for all eleven results and the same required for the
\* first nine; the Node-via-nvm and PATH hygiene results have required equal
\* to --strict.  Without --strict the exit code is decided by the first nine
\* results alone, with --strict a failure of either of the two makes it 1.
C2_StrictPromotesTwoChecks ==
  (pc = "done") =>
    LET other == main_checks(env, [args EXCEPT !.strict = ~args.strict])
    IN  /\ Len(checks) = 11 /\ Len(other) = 11
        /\ \A i \in 1..11 :
             /\ checks[i].name = other[i].name
             /\ checks[i].ok = other[i].ok
             /\ checks[i].details = other[i].details
             /\ checks[i].fix = other[i].fix
             /\ IF i \in {10, 11}
                THEN checks[i].required = args.strict /\ other[i].required = ~args.strict
                ELSE checks[i].required = other[i].required
        /\ checks[10].name = "Node.js is installed via nvm"
        /\ checks[11].name = "WSL PATH does not include Windows Node/Python locations"
        /\ ~args.strict =>
             (ret = Returned(1) <=> \E i \in 1..9 : checks[i].required /\ ~checks[i].ok)
        /\ (args.strict /\ (~checks[10].ok \/ ~checks[11].ok)) => ret = Returned(1)

\* a strict run whose only failures are the two promoted checks
C2_Witness ==
  /\ pc = "done"
  /\ args.strict
  /\ \A i \in 1..9 : checks[i].ok
  /\ ~checks[10].ok /\ ~checks[11].ok
  /\ ret = Returned(1)

\* the pattern ^/mnt/<single-letter>/ , stated on its own
MatchesDrivePattern(p) ==
  \E letter \in Letters : HasAt(p, 1, str_mnt_prefix \o <<letter>> \o str_slash)

IsAbsolute(p) == Len(p) >= 1 /\ p[1] = "/"

\* an absolute path that path resolution leaves as it is: one leading slash,
\* no empty, "." or ".." segment, no trailing slash
IsResolved(p) ==
  /\ IsAbsolute(p)
  /\ \/ p = str_slash
     \/ \A i \in 2..Len(split(p, "/")) :
          split(p, "/")[i] \notin {str_empty, str_dot, str_dotdot}

\* C3 as stated: for every absolute --project string p, ok is true when p
\* does not match ^/mnt/<single-letter>/ and false when it does.
C3_InputPatternDecides ==
  (pc = "check_python_version" /\ IsAbsolute(args.project)) =>
    (checks[2].ok <=> ~MatchesDrivePattern(args.project))

\* C3 amended: ok is true exactly when the resolved absolute path, which the
\* result reports in details, does not match ^/mnt/<single-letter>/ ; for an
\* absolute input that resolution leaves unchanged this path is the input.
C3_ResolvedPatternDecides ==
  (pc = "check_python_version") =>
    /\ checks[2].required
    /\ checks[2].ok <=> ~MatchesDrivePattern(checks[2].details)
    /\ IsResolved(args.project) =>
         /\ checks[2].details = args.project
         /\ checks[2].ok <=> ~MatchesDrivePattern(args.project)

\* an input with "." in it that resolves to a path on a drive mount
C3_Witness ==
  /\ pc = "check_python_version"
  /\ IsAbsolute(args.project)
  /\ ~IsResolved(args.project)
  /\ ~MatchesDrivePattern(args.project)
  /\ MatchesDrivePattern(checks[2].details)
  /\ ~checks[2].ok

\* s contains marker, letter case ignored
ContainsNoCase(s, marker) ==
  \E i \in 1..(Len(s) - Len(marker) + 1) :
    \A j \in 1..Len(marker) : LowerChar(s[i + j - 1]) = LowerChar(marker[j])

KernelHasMarker == env.proc_version # None /\ ContainsNoCase(env.proc_version[1], str_microsoft)

\* the result check_os must give when the WSL signal is wsl
ExpectedOs(wsl) ==
  IF env.system = sys_Windows
  THEN ~checks[1].ok
  ELSE /\ checks[1].ok
       /\ checks[1].details = str_detected \o
            (IF wsl THEN str_WSL ELSE IF env.system = sys_Darwin THEN str_macOS ELSE str_Linux)

\* C4 as stated: Windows-native gives ok=false whatever the other signals;
\* otherwise ok=true and the kind is WSL iff WSL_DISTRO_NAME is set or the
\* kernel text contains "microsoft" in any letter case (an unreadable file
\* counts as no marker), else macOS for Darwin, else Linux; required=true.
C4_WslWhenVariableSet ==
  (pc = "check_project_path") =>
    /\ checks[1].required
    /\ ExpectedOs(env.WSL_DISTRO_NAME # None \/ KernelHasMarker)

\* C4 amended: as stated, with "WSL_DISTRO_NAME is set" replaced by
\* "WSL_DISTRO_NAME is set to a non-empty value".
C4_WslWhenVariableNonEmpty ==
  (pc = "check_project_path") =>
    /\ checks[1].required
    /\ ExpectedOs((env.WSL_DISTRO_NAME # None /\ env.WSL_DISTRO_NAME[1] # str_empty)
                  \/ KernelHasMarker)

\* Darwin with the marker in mixed case in the kernel text and the variable
\* unset: classified WSL, before macOS
C4_Witness ==
  /\ pc = "check_project_path"
  /\ env.system = sys_Darwin
  /\ env.WSL_DISTRO_NAME = None
  /\ env.proc_version = Some(k_Linux \o k_Micro \o k_SOFT)
  /\ checks[1].ok
  /\ checks[1].details = str_detected \o str_WSL

\* the five Windows locations, lower-cased: a fixed prefix, and for the
\* locations below a user's directory a non-empty user name without "/"
\* followed by a fixed suffix
Locations ==
  << [pre |-> loc_pf_nodejs, user |-> FALSE, suf |-> str_empty],
     [pre |-> loc_pf86_nodejs, user |-> FALSE, suf |-> str_empty],
     [pre |-> loc_users, user |-> TRUE, suf |-> loc_roaming_npm],
     [pre |-> loc_users, user |-> TRUE, suf |-> loc_windowsapps],
     [pre |-> loc_users, user |-> TRUE, suf |-> loc_programs_python] >>

\* s has a substring that is an instance of the k-th location, in any case
HasLocation(k, s) ==
  LET l  == lower(s)
      lc == Locations[k]
  IN  \E i \in 1..Len(l) :
        /\ HasAt(l, i, lc.pre)
        /\ IF lc.user
           THEN \E n \in 1..Len(l) :
                  /\ \A j \in (i + Len(lc.pre))..(i + Len(lc.pre) + n - 1) :
                       j <= Len(l) /\ l[j] # "/"
                  /\ HasAt(l, i + Len(lc.pre) + n, lc.suf)
           ELSE TRUE

SearchPath == IF env.PATH = None THEN str_empty ELSE env.PATH[1]

\* the k-th pattern as the list in details shows it
ShownPattern(k) == IF k = 2 THEN shown_pf86_nodejs ELSE patterns[k]

\* C5 as stated: ok is true iff PATH contains none of the five locations,
\* and then details is "clean"; a PATH that contains an instance of a
\* location gives ok=false and that pattern appears in details; required
\* is --strict.
C5_PatternTextInDetails ==
  (pc = "print_results") =>
    /\ checks[11].required = args.strict
    /\ checks[11].ok <=> (\A k \in 1..5 : ~HasLocation(k, SearchPath))
    /\ checks[11].ok => checks[11].details = str_clean
    /\ \A k \in 1..5 :
         HasLocation(k, SearchPath) =>
           ~checks[11].ok /\ Contains(checks[11].details, patterns[k])

\* C5 amended: as stated, except that a pattern appears in details the way
\* the printed list shows a string, with every backslash doubled; this
\* changes the "Program Files \(x86\)" pattern only.
C5_PatternShownInDetails ==
  (pc = "print_results") =>
    /\ checks[11].required = args.strict
    /\ checks[11].ok <=> (\A k \in 1..5 : ~HasLocation(k, SearchPath))
    /\ checks[11].ok => checks[11].details = str_clean
    /\ \A k \in 1..5 :
         HasLocation(k, SearchPath) =>
           ~checks[11].ok /\ Contains(checks[11].details, ShownPattern(k))

\* an upper-case "Program Files (x86)" entry put after a clean entry
C5_Witness ==
  /\ pc = "print_results"
  /\ SearchPath = h_usr_bin \o h_colon \o h_pf86_nodejs_upper
  /\ ~checks[11].ok
  /\ Contains(checks[11].details, shown_pf86_nodejs)

InScenario ==
  /\ args.project = path_scenario_project
  /\ env.PATH = Some(path_scenario_PATH)
  /\ ~args.strict
  /\ env.system = sys_Linux

\* C6: in the scenario (project /mnt/c/Users/dev/proj, PATH
\* "/mnt/c/Program Files/nodejs:/usr/bin", no --strict, Linux host) the OS
\* check passes, the project-path check fails and is required, the PATH
\* hygiene check fails and is optional, and the exit code is 1 whatever the
\* other checks give.
C6_Scenario ==
  (pc = "done" /\ InScenario) =>
    /\ checks[1].ok
    /\ ~checks[2].ok /\ checks[2].required
    /\ ~checks[11].ok /\ ~checks[11].required
    /\ ret = Returned(1)

\* the scenario on a machine where the project path is the only required
\* failure
C6_Witness ==
  /\ pc = "done"
  /\ InScenario
  /\ FailedRequired = {2}
  /\ ret = Returned(1)

Stages ==
  << "check_os", "check_project_path", "check_python_version", "check_bin_node",
     "check_bin_uv", "check_bin_gh", "check_bin_claude", "check_bin_codex",
     "check_bin_gemini", "check_node_nvm", "check_windows_path_hygiene",
     "print_results", "done" >>

CheckNames ==
  << "OS is Linux / WSL / macOS (not Windows-native)",
     "Project directory is on Linux filesystem (not /mnt/c)",
     "Python version >= 3.10",
     "Node.js is installed",
     "uv is installed",
     "GitHub CLI (gh) is installed",
     "Claude Code (claude) is installed",
     "OpenAI Codex (codex) is installed",
     "Gemini CLI (gemini) is installed",
     "Node.js is installed via nvm",
     "WSL PATH does not include Windows Node/Python locations" >>

ResultLines == SelectSeq(out, LAMBDA l : l.line = "result")

\* the checks are evaluated one after the other in the fixed order, and the
\* finished run has printed one result per check in that order and has
\* exit code 0 or 1; a tool that is not in /usr/bin and a project path on
\* a drive mount give ok=false
C7_OrderAndEndState ==
  /\ \E k \in 1..13 :
       /\ pc = Stages[k]
       /\ Len(checks) = (IF k = 13 THEN 11 ELSE k - 1)
  /\ \A i \in 1..Len(checks) : checks[i].name = CheckNames[i]
  /\ (pc # "done") => (ret = Running /\ out = <<>>)
  /\ (pc = "done") =>
       /\ ret \in {Returned(0), Returned(1)}
       /\ Len(ResultLines) = 11
       /\ \A i \in 1..11 : ResultLines[i].text = CheckNames[i]
       /\ (ret = Returned(1)) <=> (Summaries = <<[line |-> "summary", text |-> "FAILED",
                                                  count |-> Cardinality(FailedRequired)]>>)
       /\ (path_join(dir_usr_bin, str_uv) \notin env.files) =>
            (~checks[5].ok /\ checks[5].details = str_not_found)
       /\ MatchesDrivePattern(checks[2].details) => ~checks[2].ok

StageIndex == CHOOSE k \in 1..13 : pc = Stages[k]

C8_RunNeverRaises ==
  (pc = "run_done") =>
    /\ ret.kind = "return"
    /\ Len(ret.value) = 3
    /\ (proc.does.kind = "missing") =>
         (ret.value[1] = 127 /\ ret.value[2] = str_empty /\ ret.value[3] # str_empty)

\* C9: ok is true exactly for the versions at or above 3.10, compared on
\* (major, minor) and whatever the patch level; required is true.
C9_VersionThreshold ==
  (pc = "check_bin_node") =>
    LET major == env.version_info[1]
        minor == env.version_info[2]
    IN  /\ checks[3].required
        /\ (major < 3 \/ (major = 3 /\ minor < 10)) => ~checks[3].ok
        /\ (major > 3 \/ (major = 3 /\ minor >= 10)) => checks[3].ok
        /\ (major = 3 /\ minor = 9) => ~checks[3].ok
        /\ (env.version_info \in {<<3, 10, 0>>, <<3, 13, 1>>}) => checks[3].ok

\* Python 4.0, where the minor number alone is below 10
C9_Witness ==
  /\ pc = "check_bin_node"
  /\ env.version_info = <<4, 0, 1>>
  /\ checks[3].ok

\* C10: the Node-via-nvm check passes only if node resolves and the
\* resolved path contains ".nvm"; when it passes, "Node.js is installed"
\* passes with the same path as details; when "Node.js is installed" fails
\* with details "not found", the Node-via-nvm check fails.
C10_NvmImpliesNodeInstalled ==
  (pc = "done") =>
    /\ checks[10].ok =>
         /\ checks[4].ok
         /\ checks[4].details = checks[10].details
         /\ checks[4].details \in env.files
         /\ Contains(checks[10].details, str_dot_nvm)
    /\ (checks[4].ok /\ Contains(checks[4].details, str_dot_nvm)) => checks[10].ok
    /\ ~checks[4].ok => (checks[4].details = str_not_found /\ ~checks[10].ok)

\* node is in both /usr/bin and the nvm directory, and the nvm directory
\* comes first on PATH
C10_Witness ==
  /\ pc = "done"
  /\ env.PATH = Some(path_plain_PATH)
  /\ path_join(dir_usr_bin, str_node) \in env.files
  /\ checks[10].ok
  /\ checks[4].details = path_join(dir_nvm_bin, str_node)
====
